---- MODULE Spec2Model ----
(***************************************************************************)
(* Model of the FastAPI history client of ui/src/app/api/copilotkit/       *)
(* route.ts: the three request/response operations (getHistory, getState,  *)
(* runs.list) and the joinStream async generator with its SSE decoding     *)
(* loop, driven by a consumer (next / return) and a transport (fetch       *)
(* response, stream reads).                                                *)
(*                                                                         *)
(* Text is a sequence of one-character strings.  The transport delivers    *)
(* bytes; the only multi-byte character of the model is U+00E9, encoded    *)
(* as the two bytes C3 A9.                                                 *)
(***************************************************************************)
EXTENDS Integers, Sequences, FiniteSets, TLC

VARIABLES js, ops, peer, page

vars == <<js, ops, peer, page>>

----------------------------------------------------------------------------
(* Bounds of the model *)

MaxBlocks == 2      \* blocks of lines the server sends on one stream
MaxPending == 2     \* consumer requests queued on the generator
MaxCalls == 2       \* calls of each request/response operation

----------------------------------------------------------------------------
(* Characters and bytes *)

NL == "\n"
LeadByte == "C3"
ContByte == "A9"
EAcute == "U+00E9"
Replacement == "U+FFFD"

WhiteSpace == {" ", "\t", "\r", NL}
Digits == {"0", "1", "2", "3", "4", "5", "6", "7", "8", "9"}

DigitVal(d) ==
    CASE d = "0" -> 0 [] d = "1" -> 1 [] d = "2" -> 2 [] d = "3" -> 3
      [] d = "4" -> 4 [] d = "5" -> 5 [] d = "6" -> 6 [] d = "7" -> 7
      [] d = "8" -> 8 [] OTHER -> 9

EventPrefix == <<"e", "v", "e", "n", "t", ":", " ">>
DataPrefix == <<"d", "a", "t", "a", ":", " ">>
MessageName == <<"m", "e", "s", "s", "a", "g", "e">>

----------------------------------------------------------------------------
(* String primitives used by the decoding loop *)

StartsWith(s, p) ==
    /\ Len(s) >= Len(p)
    /\ SubSeq(s, 1, Len(p)) = p

Slice(s, n) == SubSeq(s, n + 1, Len(s))

RECURSIVE TrimStart(_)
TrimStart(s) ==
    IF s # <<>> /\ Head(s) \in WhiteSpace THEN TrimStart(Tail(s)) ELSE s

RECURSIVE TrimEnd(_)
TrimEnd(s) ==
    IF s # <<>> /\ s[Len(s)] \in WhiteSpace
    THEN TrimEnd(SubSeq(s, 1, Len(s) - 1))
    ELSE s

Trim(s) == TrimEnd(TrimStart(s))

\* The first position of s that holds one of the characters cs, 0 if none.
IndexOf(s, cs) ==
    IF \A i \in 1..Len(s) : s[i] \notin cs THEN 0
    ELSE CHOOSE i \in 1..Len(s) :
            s[i] \in cs /\ \A j \in 1..(i - 1) : s[j] \notin cs

\* buffer.split("\n"): always at least one element, the last one being the
\* text after the last newline.
RECURSIVE Split(_)
Split(s) ==
    LET p == IndexOf(s, {NL}) IN
    IF p = 0 THEN <<s>>
    ELSE <<SubSeq(s, 1, p - 1)>> \o Split(SubSeq(s, p + 1, Len(s)))

\* lines.pop() || "": the element removed from the end of the array.
Pop(ls) == ls[Len(ls)]
Popped(ls) == SubSeq(ls, 1, Len(ls) - 1)

\* TextDecoder.decode(value, {stream: true}): an incomplete multi-byte
\* sequence at the end of a chunk is kept for the next call.
DecodeByte(pending, b) ==
    IF pending # <<>> /\ b = ContByte
    THEN [text |-> <<EAcute>>, pending |-> <<>>]
    ELSE LET bad == IF pending # <<>> THEN <<Replacement>> ELSE <<>> IN
         IF b = LeadByte THEN [text |-> bad, pending |-> <<b>>]
         ELSE IF b = ContByte THEN [text |-> bad \o <<Replacement>>, pending |-> <<>>]
         ELSE [text |-> bad \o <<b>>, pending |-> <<>>]

\* Bytes below 0x80 decode to themselves; the decoder goes byte by byte
\* where a multi-byte sequence is pending or begins.
RECURSIVE Decode(_, _)
Decode(pending, bytes) ==
    IF bytes = <<>> THEN [text |-> <<>>, pending |-> pending]
    ELSE LET p == IF pending # <<>> THEN 1 ELSE IndexOf(bytes, {LeadByte, ContByte}) IN
         IF p = 0 THEN [text |-> bytes, pending |-> <<>>]
         ELSE LET d == DecodeByte(pending, bytes[p])
                  r == Decode(d.pending, SubSeq(bytes, p + 1, Len(bytes)))
              IN  [text |-> SubSeq(bytes, 1, p - 1) \o d.text \o r.text,
                   pending |-> r.pending]

RECURSIVE NumberOf(_, _)
NumberOf(s, acc) ==
    IF s = <<>> THEN acc ELSE NumberOf(Tail(s), 10 * acc + DigitVal(Head(s)))

\* JSON.parse restricted to the payloads of the model: optional white space
\* around a JSON number without sign, fraction or exponent.  Everything else
\* throws.
JSONParse(s) ==
    LET t == Trim(s) IN
    IF /\ t # <<>>
       /\ \A i \in 1..Len(t) : t[i] \in Digits
       /\ (Len(t) > 1 => t[1] # "0")
    THEN [ok |-> TRUE, value |-> NumberOf(t, 0)]
    ELSE [ok |-> FALSE, value |-> 0]

----------------------------------------------------------------------------
(* What the server sends on one stream: blocks of lines, each line followed *)
(* by a newline; the stream may stop short of its last bytes.              *)

LData1 == DataPrefix \o <<"1">>
LData2 == DataPrefix \o <<"2">>
LDataBad == DataPrefix \o <<"x">>
LDataEmpty == DataPrefix
LEventA == EventPrefix \o <<"a", " ">>
LEventE == EventPrefix \o <<LeadByte, ContByte>>
LComment == <<":">>
LBlank == <<>>

Blocks ==
    { <<LData1, LBlank>>,
      <<LEventA, LData1, LData2, LBlank>>,
      <<LComment, LDataBad, LBlank>>,
      <<LBlank, LEventE, LDataEmpty, LBlank>> }

\* The stream ends after a blank line, after the line before it, or inside
\* that line.
TailCuts == {0, 1, 2}

RECURSIVE Flatten(_)
Flatten(ss) == IF ss = <<>> THEN <<>> ELSE Head(ss) \o Flatten(Tail(ss))

RECURSIVE Terminated(_)
Terminated(ls) ==
    IF ls = <<>> THEN <<>> ELSE Head(ls) \o <<NL>> \o Terminated(Tail(ls))

CutEnd(s, k) == IF k >= Len(s) THEN <<>> ELSE SubSeq(s, 1, Len(s) - k)

BlockSeqs == UNION { [1..n -> Blocks] : n \in 0..MaxBlocks }

Texts == { CutEnd(Terminated(Flatten(bs)), k) : bs \in BlockSeqs, k \in TailCuts }

Statuses == {200, 204, 304, 400, 404, 500}

\* Response.ok
Ok(status) == status >= 200 /\ status <= 299

----------------------------------------------------------------------------
(* joinStream: one call of the async generator *)

\* Variant: the request is sent when joinStream is called, before any pull.
NewCallEager(text) ==
    [ gen |-> "awaitFetch", queue |-> <<>>, result |-> "none", status |-> 0,
      body |-> "none", locked |-> FALSE, pending |-> <<>>, buffer |-> <<>>,
      lines |-> <<>>, idx |-> 0, currentEvent |-> <<>>, currentData |-> <<>>,
      out |-> <<>>, text |-> text, sent |-> 0, fetches |-> 1,
      readIssued |-> FALSE, acquired |-> 0, released |-> 0,
      abandoned |-> FALSE, latePull |-> FALSE, lineBase |-> 0,
      yieldedAt |-> <<>> ]

NewCall(text) ==
    [ gen |-> "suspendedStart",  \* suspendedStart, awaitFetch, awaitRead,
                                 \* suspendedYield, completed
      queue |-> <<>>,            \* consumer requests, the head being served
      result |-> "none",         \* how the body finished: done, error, returned
      status |-> 0,
      body |-> "none",           \* response.body: none, readable, closed, errored
      locked |-> FALSE,          \* a reader holds the lock of response.body
      pending |-> <<>>,          \* bytes the TextDecoder holds back
      buffer |-> <<>>,
      lines |-> <<>>,
      idx |-> 0,                 \* position of the for loop in lines
      currentEvent |-> <<>>,
      currentData |-> <<>>,
      out |-> <<>>,              \* chunks delivered to the consumer
      text |-> text,             \* bytes the transport will deliver
      sent |-> 0,                \* bytes delivered so far
      fetches |-> 0,
      readIssued |-> FALSE,      \* reader.read() has been called
      acquired |-> 0,
      released |-> 0,
      abandoned |-> FALSE,       \* the consumer called return()
      latePull |-> FALSE,        \* a next() was answered after completion
      lineBase |-> 0,            \* complete lines handled by earlier reads
      yieldedAt |-> <<>> ]       \* stream line number of the blank line of
                                 \* each delivered chunk

\* The body of the for loop, run from line i until a yield or the end of
\* lines.  At a yield the accumulators still hold the frame; they are
\* cleared when the generator is resumed.
RECURSIVE ForLinesFirst(_, _, _, _)
RECURSIVE ForLines(_, _, _, _)

\* Variant: a data line is kept only while the accumulator is empty, so the
\* first data line of a frame is the one parsed.
ForLinesFirst(lines, i, ev, data) ==
    IF i > Len(lines)
    THEN [kind |-> "end", idx |-> i, ev |-> ev, data |-> data,
          chunk |-> [event |-> <<>>, data |-> 0]]
    ELSE LET line == lines[i] IN
         IF StartsWith(line, EventPrefix)
         THEN ForLinesFirst(lines, i + 1, Trim(Slice(line, 7)), data)
         ELSE IF StartsWith(line, DataPrefix)
         THEN ForLinesFirst(lines, i + 1, ev,
                            IF data = <<>> THEN Slice(line, 6) ELSE data)
         ELSE IF line = <<>> /\ data # <<>>
         THEN LET p == JSONParse(data) IN
              IF p.ok
              THEN [kind |-> "yield", idx |-> i, ev |-> ev, data |-> data,
                    chunk |-> [event |-> IF ev # <<>> THEN ev ELSE MessageName,
                               data |-> p.value]]
              ELSE ForLinesFirst(lines, i + 1, <<>>, <<>>)
         ELSE ForLinesFirst(lines, i + 1, ev, data)

ForLines(lines, i, ev, data) ==
    IF i > Len(lines)
    THEN [kind |-> "end", idx |-> i, ev |-> ev, data |-> data,
          chunk |-> [event |-> <<>>, data |-> 0]]
    ELSE LET line == lines[i] IN
         IF StartsWith(line, EventPrefix)
         THEN ForLines(lines, i + 1, Trim(Slice(line, 7)), data)
         ELSE IF StartsWith(line, DataPrefix)
         THEN ForLines(lines, i + 1, ev, Slice(line, 6))
         ELSE IF line = <<>> /\ data # <<>>
         THEN LET p == JSONParse(data) IN
              IF p.ok
              THEN [kind |-> "yield", idx |-> i, ev |-> ev, data |-> data,
                    chunk |-> [event |-> IF ev # <<>> THEN ev ELSE MessageName,
                               data |-> p.value]]
              ELSE ForLines(lines, i + 1, <<>>, <<>>)
         ELSE ForLines(lines, i + 1, ev, data)

\* Variant: the lock is not released on leaving the try block.
FinallyNoRelease(c) == c

\* finally { reader.releaseLock() }
Finally(c) == [c EXCEPT !.locked = FALSE, !.released = @ + 1]

\* await reader.read()
IssueRead(c) == [c EXCEPT !.gen = "awaitRead", !.readIssued = TRUE]

\* lines, currentEvent and currentData are declared in the body of the while
\* loop: their bindings end with the iteration (and with the generator).
EndIteration(c) ==
    [c EXCEPT !.lineBase = @ + Len(c.lines), !.lines = <<>>, !.idx = 0,
              !.currentEvent = <<>>, !.currentData = <<>>]

RECURSIVE Settle(_)
RECURSIVE Continue(_, _, _, _)
RECURSIVE Complete(_, _)

\* The generator body finishes: the request being served is settled and the
\* requests queued behind it are answered.
Complete(c, how) ==
    Settle([EndIteration(c) EXCEPT !.gen = "completed", !.result = how,
                                   !.queue = Tail(@)])

\* Variant: a payload that is not JSON ends the call with the parse error.
ContinueThrows(c, i, ev, data) ==
    LET r == ForLines(c.lines, i, ev, data)
        last == IF r.kind = "yield" THEN r.idx ELSE Len(c.lines)
        bad(l) == /\ StartsWith(c.lines[l], DataPrefix)
                  /\ Slice(c.lines[l], 6) # <<>>
                  /\ ~JSONParse(Slice(c.lines[l], 6)).ok
                  /\ l < Len(c.lines)
                  /\ c.lines[l + 1] = <<>>
    IN  IF \E l \in i..last : bad(l)
        THEN Complete(Finally(c), "error")
        ELSE IF r.kind = "yield"
        THEN Settle([c EXCEPT !.gen = "suspendedYield", !.idx = r.idx,
                              !.currentEvent = r.ev, !.currentData = r.data,
                              !.out = Append(@, r.chunk),
                              !.yieldedAt = Append(@, c.lineBase + r.idx),
                              !.queue = Tail(@)])
        ELSE IssueRead(EndIteration(c))

\* The for loop runs from line i; a yield settles the request being served
\* and suspends the generator, the end of lines goes round the while loop.
Continue(c, i, ev, data) ==
    LET r == ForLines(c.lines, i, ev, data) IN
    IF r.kind = "yield"
    THEN Settle([c EXCEPT !.gen = "suspendedYield", !.idx = r.idx,
                          !.currentEvent = r.ev, !.currentData = r.data,
                          !.out = Append(@, r.chunk),
                          !.yieldedAt = Append(@, c.lineBase + r.idx),
                          !.queue = Tail(@)])
    ELSE IssueRead(EndIteration(c))

\* Variant: the accumulators are not cleared when the generator is resumed
\* after a yield.
SettleKeep(c) ==
    IF c.queue = <<>> THEN c
    ELSE LET req == Head(c.queue) IN
         CASE c.gen = "suspendedStart" ->
                IF req = "next"
                THEN [c EXCEPT !.gen = "awaitFetch", !.fetches = @ + 1]
                ELSE Complete(c, "returned")
           [] c.gen = "suspendedYield" ->
                IF req = "next"
                THEN Continue(c, c.idx + 1, c.currentEvent, c.currentData)
                ELSE Complete(Finally(c), "returned")
           [] c.gen = "completed" ->
                Settle([c EXCEPT !.queue = Tail(@),
                                 !.latePull = @ \/ req = "next"])
           [] OTHER -> c

\* A suspended or completed generator takes the next queued request.
Settle(c) ==
    IF c.queue = <<>> THEN c
    ELSE LET req == Head(c.queue) IN
         CASE c.gen = "suspendedStart" ->
                IF req = "next"
                THEN [c EXCEPT !.gen = "awaitFetch", !.fetches = @ + 1]
                ELSE Complete(c, "returned")
           [] c.gen = "suspendedYield" ->
                IF req = "next"
                THEN Continue(c, c.idx + 1, <<>>, <<>>)
                ELSE Complete(Finally(c), "returned")
           [] c.gen = "completed" ->
                Settle([c EXCEPT !.queue = Tail(@),
                                 !.latePull = @ \/ req = "next"])
           [] OTHER -> c

\* Variant: a response without a body is an error.
OnResponseNoBodyThrows(c, status, hasBody) ==
    LET r == [c EXCEPT !.status = status,
                       !.body = IF hasBody THEN "readable" ELSE "none"] IN
    IF ~Ok(status) \/ ~hasBody THEN Complete(r, "error")
    ELSE IssueRead([r EXCEPT !.locked = TRUE, !.acquired = @ + 1])

\* Variant: the reader is acquired before the status is looked at.
OnResponseEager(c, status, hasBody) ==
    LET r == [c EXCEPT !.status = status,
                       !.body = IF hasBody THEN "readable" ELSE "none"] IN
    IF ~hasBody THEN Complete(r, IF Ok(status) THEN "done" ELSE "error")
    ELSE LET a == [r EXCEPT !.locked = TRUE, !.acquired = @ + 1] IN
         IF ~Ok(status) THEN Complete(Finally(a), "error") ELSE IssueRead(a)

\* The response of fetch arrives.
OnResponse(c, status, hasBody) ==
    LET r == [c EXCEPT !.status = status,
                       !.body = IF hasBody THEN "readable" ELSE "none"] IN
    IF ~Ok(status) THEN Complete(r, "error")
    ELSE IF ~hasBody THEN Complete(r, "done")
    ELSE IssueRead([r EXCEPT !.locked = TRUE, !.acquired = @ + 1])

\* Variant: the text after the last newline of a read is thrown away.
OnChunkDropTail(c, value) ==
    LET d == Decode(c.pending, value)
        ls == Split(c.buffer \o d.text)
        r == [c EXCEPT !.sent = @ + Len(value), !.pending = d.pending,
                       !.buffer = <<>>, !.lines = Popped(ls)]
    IN  Continue(r, 1, <<>>, <<>>)

\* Variant: the buffer is a field of the client: a call continues from what
\* the other call of the client left in it.
OnChunkSharedBuffer(c, value) ==
    LET other == IF c = js THEN peer ELSE js
        d == Decode(c.pending, value)
        ls == Split(other.buffer \o d.text)
        r == [c EXCEPT !.sent = @ + Len(value), !.pending = d.pending,
                       !.buffer = Pop(ls), !.lines = Popped(ls)]
    IN  Continue(r, 1, <<>>, <<>>)

\* reader.read() resolves with a chunk of bytes.
OnChunk(c, value) ==
    LET d == Decode(c.pending, value)
        ls == Split(c.buffer \o d.text)
        r == [c EXCEPT !.sent = @ + Len(value), !.pending = d.pending,
                       !.buffer = Pop(ls), !.lines = Popped(ls)]
    IN  Continue(r, 1, <<>>, <<>>)

\* Variant: what is left in the buffer is flushed as a frame at the end.
OnDoneFlush(c) ==
    LET p == JSONParse(Slice(c.buffer, 6))
        flush == StartsWith(c.buffer, DataPrefix) /\ p.ok
    IN  Complete(Finally([c EXCEPT
            !.body = "closed",
            !.out = IF flush
                    THEN Append(@, [event |-> MessageName, data |-> p.value])
                    ELSE @,
            !.yieldedAt = IF flush THEN Append(@, c.lineBase + 1) ELSE @]),
          "done")

\* Variant: the end of the stream is told to the consumer by a last chunk.
OnDoneSentinel(c) ==
    Complete(Finally([c EXCEPT
        !.body = "closed",
        !.out = Append(@, [event |-> <<"e", "n", "d">>, data |-> 0]),
        !.yieldedAt = Append(@, c.lineBase + 1)]),
      "done")

\* reader.read() resolves with done.
OnDone(c) == Complete(Finally([c EXCEPT !.body = "closed"]), "done")

\* reader.read() rejects.
OnReadError(c) == Complete(Finally([c EXCEPT !.body = "errored"]), "error")

----------------------------------------------------------------------------
(* Actions of a joinStream call *)

Pull ==
    /\ Len(js.queue) < MaxPending
    /\ js' = Settle([js EXCEPT !.queue = Append(@, "next")])
    /\ UNCHANGED <<ops, peer, page>>

Return ==
    /\ Len(js.queue) < MaxPending
    /\ ~js.abandoned
    /\ js.gen # "completed"
    /\ js' = Settle([js EXCEPT !.queue = Append(@, "return"),
                               !.abandoned = TRUE])
    /\ UNCHANGED <<ops, peer, page>>

FetchResponds ==
    /\ js.gen = "awaitFetch"
    /\ \E status \in Statuses, hasBody \in BOOLEAN :
          js' = OnResponse(js, status, hasBody)
    /\ UNCHANGED <<ops, peer, page>>

FetchRejects ==
    /\ js.gen = "awaitFetch"
    /\ js' = Complete(js, "error")
    /\ UNCHANGED <<ops, peer, page>>

ReadResolves ==
    /\ js.gen = "awaitRead"
    /\ \E n \in 1..(Len(js.text) - js.sent) :
          js' = OnChunk(js, SubSeq(js.text, js.sent + 1, js.sent + n))
    /\ UNCHANGED <<ops, peer, page>>

ReadDone ==
    /\ js.gen = "awaitRead"
    /\ js.sent = Len(js.text)
    /\ js' = OnDone(js)
    /\ UNCHANGED <<ops, peer, page>>

ReadRejects ==
    /\ js.gen = "awaitRead"
    /\ js' = OnReadError(js)
    /\ UNCHANGED <<ops, peer, page>>

----------------------------------------------------------------------------
(* A second joinStream call made on the same client: the same steps, on the
   locals of that call *)

PeerPull ==
    /\ Len(peer.queue) < MaxPending
    /\ peer' = Settle([peer EXCEPT !.queue = Append(@, "next")])
    /\ UNCHANGED <<js, ops, page>>

PeerReturn ==
    /\ Len(peer.queue) < MaxPending
    /\ ~peer.abandoned
    /\ peer.gen # "completed"
    /\ peer' = Settle([peer EXCEPT !.queue = Append(@, "return"),
                                   !.abandoned = TRUE])
    /\ UNCHANGED <<js, ops, page>>

PeerFetchResponds ==
    /\ peer.gen = "awaitFetch"
    /\ \E status \in Statuses, hasBody \in BOOLEAN :
          peer' = OnResponse(peer, status, hasBody)
    /\ UNCHANGED <<js, ops, page>>

PeerFetchRejects ==
    /\ peer.gen = "awaitFetch"
    /\ peer' = Complete(peer, "error")
    /\ UNCHANGED <<js, ops, page>>

PeerReadResolves ==
    /\ peer.gen = "awaitRead"
    /\ \E n \in 1..(Len(peer.text) - peer.sent) :
          peer' = OnChunk(peer, SubSeq(peer.text, peer.sent + 1, peer.sent + n))
    /\ UNCHANGED <<js, ops, page>>

PeerReadDone ==
    /\ peer.gen = "awaitRead"
    /\ peer.sent = Len(peer.text)
    /\ peer' = OnDone(peer)
    /\ UNCHANGED <<js, ops, page>>

PeerReadRejects ==
    /\ peer.gen = "awaitRead"
    /\ peer' = OnReadError(peer)
    /\ UNCHANGED <<js, ops, page>>

----------------------------------------------------------------------------
(* getHistory, getState and runs.list: one fetch, then the response *)

OpNames == {"getHistory", "getState", "list"}

IdleOp ==
    [ phase |-> "idle",      \* idle, pending, settled
      calls |-> 0,
      fetches |-> 0,         \* fetch requests issued by the current call
      limit |-> 0,           \* the limit parameter of the history request
      status |-> 0,
      outcome |-> [kind |-> "none", value |-> <<>>] ]

DefaultLimit == 100
NoLimit == -1
Limits == {NoLimit, 0, 5}

\* { values: { messages: [] }, next: [], tasks: [] }
EmptyState == [values |-> [messages |-> <<>>], next |-> <<>>, tasks |-> <<>>]

SomeState == [values |-> [messages |-> <<"hi">>], next |-> <<"agent">>, tasks |-> <<>>]

\* Bodies a response may carry.
StateBodies == {EmptyState, SomeState}
ListBodies == {<<>>, <<SomeState>>}

Returned(v) == [kind |-> "value", value |-> v]
Thrown(m) == [kind |-> "error", value |-> m]

\* return response.json(): rejects when the body is not JSON.
ResponseJson(valid, body) ==
    IF valid THEN Returned(body) ELSE Thrown("SyntaxError")

GetHistoryResult(status, valid, body) ==
    IF ~Ok(status) THEN Thrown("Failed to fetch history")
    ELSE ResponseJson(valid, body)

\* Variant: a 404 is thrown like every other failure.
GetStateResultNo404(status, valid, body) ==
    IF ~Ok(status) THEN Thrown("Failed to fetch state")
    ELSE ResponseJson(valid, body)

GetStateResult(status, valid, body) ==
    IF ~Ok(status)
    THEN IF status = 404 THEN Returned(EmptyState)
         ELSE Thrown("Failed to fetch state")
    ELSE ResponseJson(valid, body)

\* Variant: a 404 is answered with an empty list.
ListResult404(status, valid, body) ==
    IF ~Ok(status)
    THEN IF status = 404 THEN Returned(<<>>) ELSE Thrown("Failed to list runs")
    ELSE ResponseJson(valid, body)

ListResult(status, valid, body) ==
    IF ~Ok(status) THEN Thrown("Failed to list runs")
    ELSE ResponseJson(valid, body)

\* The call up to its await fetch(...).
Called(o, limit) ==
    [o EXCEPT !.phase = "pending", !.calls = @ + 1, !.fetches = 1,
              !.limit = limit, !.status = 0,
              !.outcome = [kind |-> "none", value |-> <<>>]]

\* The call from the response to its return or throw.
Settled(o, status, outcome) ==
    [o EXCEPT !.phase = "settled", !.status = status, !.outcome = outcome]

CanCall(op) == ops[op].phase # "pending" /\ ops[op].calls < MaxCalls

GetHistoryCall ==
    /\ CanCall("getHistory")
    /\ \E l \in Limits :
          ops' = [ops EXCEPT !["getHistory"] =
                    Called(@, IF l = NoLimit THEN DefaultLimit ELSE l)]
    /\ UNCHANGED <<js, peer, page>>

GetHistoryResponds ==
    /\ ops["getHistory"].phase = "pending"
    /\ \E status \in Statuses, valid \in BOOLEAN, body \in ListBodies :
          ops' = [ops EXCEPT !["getHistory"] =
                    Settled(@, status, GetHistoryResult(status, valid, body))]
    /\ UNCHANGED <<js, peer, page>>

GetStateCall ==
    /\ CanCall("getState")
    /\ ops' = [ops EXCEPT !["getState"] = Called(@, 0)]
    /\ UNCHANGED <<js, peer, page>>

GetStateResponds ==
    /\ ops["getState"].phase = "pending"
    /\ \E status \in Statuses, valid \in BOOLEAN, body \in StateBodies :
          ops' = [ops EXCEPT !["getState"] =
                    Settled(@, status, GetStateResult(status, valid, body))]
    /\ UNCHANGED <<js, peer, page>>

ListCall ==
    /\ CanCall("list")
    /\ ops' = [ops EXCEPT !["list"] = Called(@, 0)]
    /\ UNCHANGED <<js, peer, page>>

ListResponds ==
    /\ ops["list"].phase = "pending"
    /\ \E status \in Statuses, valid \in BOOLEAN, body \in ListBodies :
          ops' = [ops EXCEPT !["list"] =
                    Settled(@, status, ListResult(status, valid, body))]
    /\ UNCHANGED <<js, peer, page>>

\* fetch itself rejects (no response): the rejection leaves the call.
OpFetchRejects ==
    /\ \E op \in OpNames :
          /\ ops[op].phase = "pending"
          /\ ops' = [ops EXCEPT ![op] = Settled(@, 0, Thrown("TypeError"))]
    /\ UNCHANGED <<js, peer, page>>

----------------------------------------------------------------------------
(* The page: the user selector and the thread list of Home *)

MaxInFlight == 2
MaxNew == 1

Users == {"user_alice", "user_bob", "user_charlie"}
FirstUser == "user_alice"

\* Thread ids: none, the ones the server holds at the start, the one of the
\* threadId parameter of the URL, and the fresh ones of uuidv4().
NoThread == 0
AliceThread == 1
BobThread == 2
UrlThread == 3
NewId(k) == 10 + k

UrlIds == {NoThread, UrlThread}

ThreadInfo(id, user) == [thread_id |-> id, user_id |-> user]

\* What the server holds for each user when the page is opened.
InitialStore ==
    [u \in Users |-> IF u = "user_alice" THEN <<AliceThread>>
                     ELSE IF u = "user_bob" THEN <<BobThread>>
                     ELSE <<>>]

IdleCall == [kind |-> "idle", user |-> FirstUser, id |-> NoThread]

Outcomes == {"ok", "notok", "reject"}

\* The state of Home after the first render, and the server behind it.
NewPage(url) ==
    [ currentUser |-> FirstUser, threads |-> <<>>, threadId |-> NoThread,
      loading |-> TRUE, mounted |-> FALSE, url |-> url,
      calls |-> [s \in 1..MaxInFlight |-> IdleCall],
      created |-> 0, store |-> InitialStore ]

FreeSlots(p) == {s \in DOMAIN p.calls : p.calls[s].kind = "idle"}

\* fetchThreads(userId) up to its first await.
FetchThreads(p, userId, s) ==
    [p EXCEPT !.loading = TRUE,
              !.calls[s] = [kind |-> "list", user |-> userId, id |-> NoThread]]

\* switchUser(user), and the effect that follows a change of currentUser.id.
SwitchUserTo(p, user, s) ==
    LET q == [p EXCEPT !.currentUser = user, !.threadId = NoThread,
                       !.threads = <<>>]
    IN  IF user # p.currentUser THEN FetchThreads(q, user, s) ELSE q

\* fetchThreads after the GET has settled.
OnThreadsResponse(p, s, outcome) ==
    LET c == p.calls[s]
        data == [i \in 1..Len(p.store[c.user])
                    |-> ThreadInfo(p.store[c.user][i], c.user)]
    IN  IF outcome # "ok"
        THEN [p EXCEPT !.loading = FALSE, !.calls[s] = IdleCall]
        ELSE IF p.url # NoThread
        THEN [p EXCEPT !.threads = data,
                       !.calls[s] = [kind |-> "urlreg", user |-> c.user,
                                     id |-> p.url]]
        ELSE [p EXCEPT !.threads = data,
                       !.threadId = IF Len(data) > 0 THEN data[1].thread_id
                                    ELSE NoThread,
                       !.loading = FALSE, !.calls[s] = IdleCall]

\* fetchThreads after registerThread(userId, urlThreadId) has settled:
\* registerThread answers null for every failure and its answer is not
\* looked at.
OnUrlRegistered(p, s) ==
    [p EXCEPT !.threadId = p.calls[s].id, !.loading = FALSE,
              !.calls[s] = IdleCall]

\* createNewThread up to its await.
CreateNewThread(p, s) ==
    [p EXCEPT !.created = @ + 1,
              !.calls[s] = [kind |-> "newreg", user |-> p.currentUser,
                            id |-> NewId(p.created + 1)]]

\* createNewThread after registerThread has settled.
OnNewRegistered(p, s, outcome) ==
    LET c == p.calls[s] IN
    IF outcome = "ok"
    THEN [p EXCEPT !.threads = <<ThreadInfo(c.id, c.user)>> \o @,
                   !.threadId = c.id,
                   !.store[c.user] = <<c.id>> \o @,
                   !.calls[s] = IdleCall]
    ELSE [p EXCEPT !.calls[s] = IdleCall]

Mount ==
    /\ ~page.mounted
    /\ \E s \in FreeSlots(page) :
          page' = FetchThreads([page EXCEPT !.mounted = TRUE], page.currentUser, s)
    /\ UNCHANGED <<js, ops, peer>>

SwitchUser ==
    /\ page.mounted
    /\ \E user \in Users :
          LET s == CHOOSE x \in FreeSlots(page) : \A y \in FreeSlots(page) : x <= y IN
          /\ FreeSlots(page) # {}
          /\ page' = SwitchUserTo(page, user, s)
    /\ UNCHANGED <<js, ops, peer>>

ThreadsRespond ==
    /\ \E s \in DOMAIN page.calls, outcome \in Outcomes :
          /\ page.calls[s].kind = "list"
          /\ page' = OnThreadsResponse(page, s, outcome)
    /\ UNCHANGED <<js, ops, peer>>

UrlRegisterSettles ==
    /\ \E s \in DOMAIN page.calls :
          /\ page.calls[s].kind = "urlreg"
          /\ page' = OnUrlRegistered(page, s)
    /\ UNCHANGED <<js, ops, peer>>

NewThread ==
    /\ page.mounted
    /\ page.created < MaxNew
    /\ FreeSlots(page) # {}
    /\ LET s == CHOOSE x \in FreeSlots(page) : \A y \in FreeSlots(page) : x <= y IN
       page' = CreateNewThread(page, s)
    /\ UNCHANGED <<js, ops, peer>>

NewRegisterSettles ==
    /\ \E s \in DOMAIN page.calls, outcome \in Outcomes :
          /\ page.calls[s].kind = "newreg"
          /\ page' = OnNewRegistered(page, s, outcome)
    /\ UNCHANGED <<js, ops, peer>>

\* selectThread(id), for a thread of the list, which is on display when
\* loading is false.
SelectThread ==
    /\ page.mounted
    /\ ~page.loading
    /\ \E i \in 1..Len(page.threads) :
          page' = [page EXCEPT !.threadId = page.threads[i].thread_id]
    /\ UNCHANGED <<js, ops, peer>>

----------------------------------------------------------------------------
(* Specifications *)

Init ==
    /\ js \in { NewCall(t) : t \in Texts }
    /\ ops = [op \in OpNames |-> IdleOp]
    /\ peer = NewCall(<<>>)
    /\ page = NewPage(NoThread)

Next ==
    \/ Pull
    \/ Return
    \/ FetchResponds
    \/ FetchRejects
    \/ ReadResolves
    \/ ReadDone
    \/ ReadRejects

Spec == Init /\ [][Next]_vars

InitClient ==
    /\ js = NewCall(<<>>)
    /\ ops = [op \in OpNames |-> IdleOp]
    /\ peer = NewCall(<<>>)
    /\ page = NewPage(NoThread)

NextClient ==
    \/ GetHistoryCall
    \/ GetHistoryResponds
    \/ GetStateCall
    \/ GetStateResponds
    \/ ListCall
    \/ ListResponds
    \/ OpFetchRejects

SpecClient == InitClient /\ [][NextClient]_vars

\* Two joinStream calls made on one client, each on its own stream, their
\* pulls, responses and reads interleaved in every order.
PairTexts ==
    [ js   |-> Terminated(<<LData1, LBlank>>),
      peer |-> Terminated(<<LEventA, LData1, LData2, LBlank>>) ]

InitPair ==
    /\ js = NewCall(PairTexts.js)
    /\ peer = NewCall(PairTexts.peer)
    /\ ops = [op \in OpNames |-> IdleOp]
    /\ page = NewPage(NoThread)

NextPeer ==
    \/ PeerPull
    \/ PeerReturn
    \/ PeerFetchResponds
    \/ PeerFetchRejects
    \/ PeerReadResolves
    \/ PeerReadDone
    \/ PeerReadRejects

NextPair == Next \/ NextPeer

SpecPair == InitPair /\ [][NextPair]_vars

\* The page alone, opened with or without a threadId parameter.
InitPage ==
    /\ js = NewCall(<<>>)
    /\ peer = NewCall(<<>>)
    /\ ops = [op \in OpNames |-> IdleOp]
    /\ page \in { NewPage(url) : url \in UrlIds }

NextPage ==
    \/ Mount
    \/ SwitchUser
    \/ ThreadsRespond
    \/ UrlRegisterSettles
    \/ NewThread
    \/ NewRegisterSettles
    \/ SelectThread

SpecPage == InitPage /\ [][NextPage]_vars

\* One call on a stream of one block, with a consumer that keeps pulling, a
\* fetch that settles and a transport whose reads settle until it closes.
LiveTexts == { CutEnd(Terminated(b), k) : b \in Blocks, k \in TailCuts }

InitLive ==
    /\ js \in { NewCall(t) : t \in LiveTexts }
    /\ ops = [op \in OpNames |-> IdleOp]
    /\ peer = NewCall(<<>>)
    /\ page = NewPage(NoThread)

SpecLive ==
    /\ InitLive
    /\ [][Next]_vars
    /\ WF_vars(Pull)
    /\ WF_vars(FetchResponds \/ FetchRejects)
    /\ WF_vars(ReadResolves \/ ReadDone \/ ReadRejects)

----------------------------------------------------------------------------
(* Reference readings of a stream *)

\* The complete lines of a stream of bytes, decoded.
TextLines(bytes) == Popped(Split(Decode(<<>>, bytes).text))

\* The frames the for loop delivers when it is given all lines at once:
\* for each, the chunk, the line of its blank line and the first line after
\* the previous delivered frame.
RECURSIVE FramesFrom(_, _)
FramesFrom(lines, i) ==
    LET r == ForLines(lines, i, <<>>, <<>>) IN
    IF r.kind = "yield"
    THEN <<[chunk |-> r.chunk, at |-> r.idx, from |-> i]>>
            \o FramesFrom(lines, r.idx + 1)
    ELSE <<>>

\* The chunks yielded when the whole stream arrives in one read.
OneShot(bytes) ==
    LET fs == FramesFrom(TextLines(bytes), 1) IN
    [i \in 1..Len(fs) |-> fs[i].chunk]

\* Streams made of whole blocks, ending with a blank line.
WholeTexts == { Terminated(Flatten(bs)) : bs \in BlockSeqs }

ClosedNormally == js.gen = "completed" /\ js.body = "closed"

\* The number of complete lines among the bytes handed to the call so far.
Arrived == Cardinality({i \in 1..js.sent : js.text[i] = NL})

\* The accumulators after the for loop has gone through all of lines from
\* line i, when their values are carried from one line to the next and
\* cleared only after a delivered or dropped frame.
RECURSIVE AccAfter(_, _, _, _)
AccAfter(lines, i, ev, data) ==
    LET r == ForLines(lines, i, ev, data) IN
    IF r.kind = "yield"
    THEN AccAfter(lines, r.idx + 1, <<>>, <<>>)
    ELSE [ev |-> r.ev, data |-> r.data]

----------------------------------------------------------------------------
(* Claims *)

\* C1: however the bytes of a whole stream are split into reads, the chunks
\* yielded up to the normal end of the stream are those yielded when the
\* stream arrives in one read.
C1_SplitEqualsOneShot ==
    (ClosedNormally /\ js.text \in WholeTexts) => js.out = OneShot(js.text)

\* C2: a reader that was acquired is released exactly once on every path
\* that ends the call (end of stream, read error, return() of the consumer);
\* it is never released twice and the lock is held exactly in between.
C2_ReleasedExactlyOnce ==
    /\ js.acquired <= 1
    /\ js.released <= js.acquired
    /\ js.locked <=> (js.acquired > js.released)
    /\ (js.gen = "completed" /\ js.acquired = 1) => js.released = 1

C2_Witness ==
    /\ js.gen = "completed"
    /\ js.result = "returned"
    /\ js.acquired = 1
    /\ js.released = 1
    /\ Len(js.out) = 1

\* C3: a stream of well-formed frames with exactly one frame of malformed
\* JSON among them yields, up to its normal end, exactly the chunks of the
\* well-formed frames in order, and the call ends without an error.
WellFormedBlocks == { <<LData1, LBlank>>, <<LEventA, LData1, LData2, LBlank>> }
MalformedBlock == <<LComment, LDataBad, LBlank>>

ChunkOfBlock(b) ==
    IF b = <<LData1, LBlank>>
    THEN [event |-> MessageName, data |-> 1]
    ELSE [event |-> <<"a">>, data |-> 2]

RECURSIVE ChunksOfBlocks(_)
ChunksOfBlocks(bs) ==
    IF bs = <<>> THEN <<>>
    ELSE IF Head(bs) = MalformedBlock THEN ChunksOfBlocks(Tail(bs))
    ELSE <<ChunkOfBlock(Head(bs))>> \o ChunksOfBlocks(Tail(bs))

OneMalformed(bs) ==
    /\ Cardinality({i \in DOMAIN bs : bs[i] = MalformedBlock}) = 1
    /\ \A i \in DOMAIN bs : bs[i] \in WellFormedBlocks \cup {MalformedBlock}

C3_MalformedFrameSkipped ==
    \A bs \in BlockSeqs :
        (ClosedNormally /\ OneMalformed(bs) /\ js.text = Terminated(Flatten(bs)))
            => (js.result = "done" /\ js.out = ChunksOfBlocks(bs))

\* C4: when the consumer abandons the sequence with return() before the
\* transport has closed, the reader is released and the response stream is
\* cancelled or closed, not left readable.
C4_AbandonClosesTransport ==
    (js.gen = "completed" /\ js.result = "returned" /\ js.acquired = 1)
        => (~js.locked /\ js.body # "readable")

\* C5: the chunks are yielded in the order in which the blank lines of their
\* frames arrived: each chunk belongs to a blank line that has arrived, later
\* than the blank line of the chunk before it, and carries the payload of
\* the last data line between the two, so no frame is yielded twice.
C5_ArrivalOrder ==
    LET ls == TextLines(js.text)
        arrived == Cardinality({i \in 1..js.sent : js.text[i] = NL})
    IN  /\ Len(js.yieldedAt) = Len(js.out)
        /\ \A i \in 1..Len(js.out) :
              LET k == js.yieldedAt[i]
                  prev == IF i = 1 THEN 0 ELSE js.yieldedAt[i - 1]
              IN  /\ prev < k
                  /\ k <= arrived
                  /\ ls[k] = <<>>
                  /\ \E d \in (prev + 1)..(k - 1) :
                        /\ StartsWith(ls[d], DataPrefix)
                        /\ \A e \in (d + 1)..(k - 1) : ~StartsWith(ls[e], DataPrefix)
                        /\ JSONParse(Slice(ls[d], 6)) = [ok |-> TRUE, value |-> js.out[i].data]

C5_Witness ==
    /\ Len(js.out) = 2
    /\ js.out[1].data # js.out[2].data
    /\ js.lineBase > 0

\* C6: when the transport closes while the stream ends in a data line
\* without its blank line (complete, or still partial in the buffer), the
\* call ends normally and no chunk belongs to that tail.
TailStart(bytes) ==
    LET ls == TextLines(bytes)
        blanks == {i \in 1..Len(ls) : ls[i] = <<>>}
    IN  IF blanks = {} THEN 1
        ELSE (CHOOSE i \in blanks : \A j \in blanks : j <= i) + 1

HasTrailingData(bytes) ==
    LET all == Split(Decode(<<>>, bytes).text) IN
    \E i \in TailStart(bytes)..Len(all) : StartsWith(all[i], DataPrefix)

C6_TrailingFragmentDropped ==
    (ClosedNormally /\ HasTrailingData(js.text))
        => /\ js.result = "done"
           /\ Len(js.yieldedAt) = Len(js.out)
           /\ \A i \in 1..Len(js.out) : js.yieldedAt[i] < TailStart(js.text)

C6_Witness ==
    /\ ClosedNormally
    /\ HasTrailingData(js.text)
    /\ js.result = "done"
    /\ Len(js.out) = 1

\* C7: a frame with a data line of valid JSON and no event line yields, up
\* to the normal end of the stream, a chunk whose event is "message".
C7_DefaultEventName ==
    LET ls == TextLines(js.text)
        fs == FramesFrom(ls, 1)
    IN  ClosedNormally =>
          \A n \in 1..Len(fs) :
              (\A l \in fs[n].from..fs[n].at : ~StartsWith(ls[l], EventPrefix))
                 => \E i \in 1..Len(js.out) :
                       /\ js.yieldedAt[i] = fs[n].at
                       /\ js.out[i].event = MessageName

\* C8: getState answered with status 404 returns the canonical empty state
\* and throws nothing.
C8_NotFoundIsEmptyState ==
    (ops["getState"].phase = "settled" /\ ops["getState"].status = 404)
        => /\ ops["getState"].outcome.kind = "value"
           /\ ops["getState"].outcome.value = EmptyState

C8_Witness ==
    /\ ops["getState"].phase = "settled"
    /\ ops["getState"].status = 404
    /\ ops["getState"].outcome.kind = "value"

\* C9: getHistory and runs.list throw for every response that is not ok,
\* 404 included, getState for every one but 404; each call issues exactly
\* one fetch.
C9_FailuresThrow ==
    \A op \in OpNames :
        /\ ops[op].phase # "idle" => ops[op].fetches = 1
        /\ (/\ ops[op].phase = "settled"
            /\ ops[op].status # 0
            /\ ~Ok(ops[op].status)
            /\ ~(op = "getState" /\ ops[op].status = 404))
              => ops[op].outcome.kind = "error"

C9_Witness ==
    /\ ops["list"].phase = "settled"
    /\ ops["list"].status = 404
    /\ ops["list"].outcome.kind = "error"
    /\ ops["getHistory"].phase = "settled"
    /\ ops["getHistory"].status = 500
    /\ ops["getState"].phase = "settled"
    /\ ops["getState"].status = 500
    /\ ops["getState"].outcome.kind = "error"

\* C10: when the response to the join request is not ok, the call ends with
\* an error before any chunk, and no reader is acquired or read from.
C10_BadStatusFailsFirst ==
    (js.status # 0 /\ ~Ok(js.status))
        => /\ js.gen = "completed"
           /\ js.result = "error"
           /\ js.out = <<>>
           /\ js.acquired = 0
           /\ ~js.locked
           /\ ~js.readIssued

C10_Witness ==
    /\ js.status = 500
    /\ js.body = "readable"
    /\ js.gen = "completed"
    /\ js.result = "error"

\* C11: a response with a successful status and no body ends the call
\* normally with no chunk and no error, and no reader is acquired.
C11_NoBodyIsEmpty ==
    (js.status # 0 /\ Ok(js.status) /\ js.body = "none")
        => /\ js.gen = "completed"
           /\ js.result = "done"
           /\ js.out = <<>>
           /\ js.acquired = 0
           /\ ~js.readIssued

C11_Witness ==
    /\ js.status = 204
    /\ js.body = "none"
    /\ js.gen = "completed"
    /\ js.result = "done"
    /\ js.latePull

\* C13: the call runs only while a next() of the consumer is being served:
\* before the first pull no request is sent, and a fetch or a transport read
\* is outstanding only for a pull; with no request queued the generator is
\* suspended or completed.
C13_PullDriven ==
    /\ js.gen = "suspendedStart"
          => (js.fetches = 0 /\ js.status = 0 /\ ~js.readIssued /\ js.out = <<>>)
    /\ js.gen \in {"awaitFetch", "awaitRead"}
          => (js.queue # <<>> /\ Head(js.queue) = "next")
    /\ js.queue = <<>>
          => js.gen \in {"suspendedStart", "suspendedYield", "completed"}
    /\ js.fetches <= 1

C13_Witness ==
    /\ js.gen = "awaitRead"
    /\ Len(js.out) = 1
    /\ js.queue = <<"next">>
    /\ js.sent < Len(js.text)

\* C14 as claimed: once the first read has been issued the call never ends
\* with an error.
C14_NoErrorAfterFirstRead ==
    js.readIssued => js.result # "error"

\* C14: once the first read has been issued, the only error that reaches
\* the consumer is a rejected transport read, raised after the reader is
\* released; a payload that is not JSON never ends the call.
C14_OnlyReadErrorsAfterFirstRead ==
    /\ (js.readIssued /\ js.result = "error")
          => (js.body = "errored" /\ js.released = 1 /\ ~js.locked)
    /\ ClosedNormally => js.result = "done"

C14_Witness ==
    /\ ClosedNormally
    /\ js.result = "done"
    /\ js.text = Terminated(MalformedBlock \o <<LData1, LBlank>>)
    /\ Len(js.out) = 1

\* C15: the accumulators live as long as the stream: when a read has been
\* processed and the next one is awaited they hold what the lines received
\* so far have put in them since the last completed frame.
C15_AccumulatorsSurviveReads ==
    js.gen = "awaitRead"
        => [ev |-> js.currentEvent, data |-> js.currentData]
              = AccAfter(SubSeq(TextLines(js.text), 1, Arrived), 1, <<>>, <<>>)

\* C17: a data line replaces the data accumulator: the payload of a chunk is
\* the one of the nearest data line before its blank line, also when that
\* line follows another data line, and a blank line gives one chunk at most.
C17_LastDataLineWins ==
    LET ls == TextLines(js.text) IN
    /\ \A i \in 1..Len(js.out) :
          LET k == js.yieldedAt[i]
              ds == {d \in 1..(k - 1) : StartsWith(ls[d], DataPrefix)}
          IN  /\ ds # {}
              /\ LET d == CHOOSE x \in ds : \A y \in ds : y <= x IN
                 /\ JSONParse(Slice(ls[d], 6)).ok
                 /\ JSONParse(Slice(ls[d], 6)).value = js.out[i].data
                 /\ (js.gen = "suspendedYield" /\ i = Len(js.out))
                       => js.currentData = Slice(ls[d], 6)
    /\ \A i, j \in 1..Len(js.yieldedAt) : i # j => js.yieldedAt[i] # js.yieldedAt[j]

C17_Witness ==
    LET ls == TextLines(js.text) IN
    /\ js.gen = "suspendedYield"
    /\ Len(js.out) = 1
    /\ js.yieldedAt[1] > 2
    /\ ls[js.yieldedAt[1] - 1] = LData2
    /\ ls[js.yieldedAt[1] - 2] = LData1
    /\ js.out[1].data = 2
    /\ js.currentData = <<"2">>

\* C18: after every read the buffer holds no newline and is the text after
\* the last newline received; the lines handed to the for loop are exactly
\* the complete lines not yet processed, each of them once.
C18_BufferIsTail ==
    js.gen \in {"awaitRead", "suspendedYield"}
        => LET all == Split(Decode(<<>>, SubSeq(js.text, 1, js.sent)).text) IN
           /\ \A i \in 1..Len(js.buffer) : js.buffer[i] # NL
           /\ js.buffer = Pop(all)
           /\ js.lineBase + Len(js.lines) = Arrived
           /\ js.lines = SubSeq(Popped(all), js.lineBase + 1, Arrived)
           /\ js.gen = "awaitRead" => js.lines = <<>>

C18_Witness ==
    /\ js.gen = "awaitRead"
    /\ js.buffer # <<>>
    /\ js.lineBase > 0
    /\ js.sent < Len(js.text)

\* C19 as claimed: the event name of a chunk comes from an event line
\* located after the most recent blank line before the data line of the
\* chunk; with no such line the chunk is named "message".
C19_NoLeakAcrossBlankLine ==
    LET ls == TextLines(js.text) IN
    \A i \in 1..Len(js.out) :
        LET k == js.yieldedAt[i]
            ds == {d \in 1..(k - 1) : StartsWith(ls[d], DataPrefix)}
            d == CHOOSE x \in ds : \A y \in ds : y <= x
            bs == {b \in 1..(d - 1) : ls[b] = <<>>}
            b == IF bs = {} THEN 0 ELSE CHOOSE x \in bs : \A y \in bs : y <= x
        IN  \/ js.out[i].event = MessageName
            \/ \E e \in (b + 1)..(k - 1) :
                  /\ StartsWith(ls[e], EventPrefix)
                  /\ Trim(Slice(ls[e], 7)) = js.out[i].event

\* What the loop does guarantee about event names: the name of a chunk never
\* comes from an event line located before the blank line of the chunk
\* yielded before it; it is "message" or the trimmed name of the last event
\* line between the two blank lines.
NoLeakAcrossFrame ==
    LET ls == TextLines(js.text) IN
    \A i \in 1..Len(js.out) :
        LET k == js.yieldedAt[i]
            prev == IF i = 1 THEN 0 ELSE js.yieldedAt[i - 1]
        IN  \/ js.out[i].event = MessageName
            \/ \E e \in (prev + 1)..(k - 1) :
                  /\ StartsWith(ls[e], EventPrefix)
                  /\ Trim(Slice(ls[e], 7)) = js.out[i].event
                  /\ \A f \in (e + 1)..(k - 1) : ~StartsWith(ls[f], EventPrefix)

LeakedEventName ==
    /\ js.text = Terminated(<<LBlank, LEventE, LDataEmpty, LBlank, LData1, LBlank>>)
    /\ Len(js.out) = 1
    /\ js.out[1].event = <<EAcute>>
    /\ js.out[1].data = 1

\* C16: a call that reads a body ends normally only when the transport has
\* signalled its end, after all its bytes; the end adds no chunk, and once
\* the call has ended no pull yields a chunk or issues a read; when the
\* consumer keeps pulling and the reads settle, the call eventually ends.
C16_EndsWithTransport ==
    /\ []((js.result = "done" /\ js.body # "none")
             => (js.body = "closed" /\ js.sent = Len(js.text)))
    /\ [][/\ (js'.gen = "completed" /\ js'.result = "done")
                => js'.out = js.out
          /\ js.gen = "completed"
                => /\ js'.gen = "completed"
                   /\ js'.out = js.out
                   /\ js'.result = js.result
                   /\ js'.sent = js.sent
                   /\ js'.readIssued = js.readIssued]_vars
    /\ <>(js.gen = "completed")

C16_Witness ==
    /\ ClosedNormally
    /\ js.result = "done"
    /\ js.latePull
    /\ Len(js.out) = 1
    /\ ~js.abandoned

\* What a call holds is read off its own stream: the buffer is the text
\* after the last newline it received, the lines are its own unprocessed
\* lines, and each chunk is the payload of the last data line before a blank
\* line of its own stream, named by an event line of that stream.
OwnStreamOnly(c) ==
    LET all == Split(Decode(<<>>, SubSeq(c.text, 1, c.sent)).text)
        ls == TextLines(c.text)
        n == Cardinality({i \in 1..c.sent : c.text[i] = NL})
    IN  /\ c.gen \in {"awaitRead", "suspendedYield"}
              => /\ c.buffer = Pop(all)
                 /\ c.lines = SubSeq(Popped(all), c.lineBase + 1, n)
        /\ Len(c.yieldedAt) = Len(c.out)
        /\ \A i \in 1..Len(c.out) :
              LET k == c.yieldedAt[i]
                  ds == {d \in 1..(k - 1) : StartsWith(ls[d], DataPrefix)}
              IN  /\ k <= n
                  /\ ls[k] = <<>>
                  /\ ds # {}
                  /\ LET d == CHOOSE x \in ds : \A y \in ds : y <= x IN
                     JSONParse(Slice(ls[d], 6)) = [ok |-> TRUE, value |-> c.out[i].data]
                  /\ \/ c.out[i].event = MessageName
                     \/ \E e \in 1..(k - 1) :
                           /\ StartsWith(ls[e], EventPrefix)
                           /\ Trim(Slice(ls[e], 7)) = c.out[i].event
        /\ c.fetches <= 1
        /\ c.acquired <= 1
        /\ c.released <= c.acquired

\* C12: two joinStream calls on one client are independent under every
\* interleaving of their pulls, responses and reads: no step changes both
\* calls, and the buffer, lines and chunks of each call are those of its own
\* stream and reads, whatever the other call has done.
C12_CallsIndependent ==
    /\ [](OwnStreamOnly(js) /\ OwnStreamOnly(peer))
    /\ [][js' = js \/ peer' = peer]_vars

C12_Witness ==
    /\ js.gen = "completed" /\ js.body = "closed"
    /\ peer.gen = "completed" /\ peer.body = "closed"
    /\ Len(js.out) = 1
    /\ js.out[1] = [event |-> MessageName, data |-> 1]
    /\ Len(peer.out) = 1
    /\ peer.out[1] = [event |-> <<"a">>, data |-> 2]
    /\ js.lineBase = 2
    /\ peer.lineBase = 4

ListPending(user) ==
    \E s \in DOMAIN page.calls :
        /\ page.calls[s].kind \in {"list", "urlreg"}
        /\ page.calls[s].user = user

\* C20: a late response for an earlier user never overwrites the state of
\* the current user: once no fetchThreads is pending the threads on display
\* belong to currentUser and the selected thread is one of them (or the one
\* of the URL), and loading is false only when no fetchThreads for
\* currentUser is in flight.
C20_NoStaleOverwrite ==
    /\ (\A u \in Users : ~ListPending(u))
          => /\ \A i \in 1..Len(page.threads) :
                   page.threads[i].user_id = page.currentUser
             /\ \/ page.threadId = NoThread
                \/ page.threadId = page.url
                \/ \E i \in 1..Len(page.threads) :
                      page.threads[i].thread_id = page.threadId
    /\ (page.mounted /\ ~page.loading) => ~ListPending(page.currentUser)

====
